---- MODULE Spec2Model ----
(***************************************************************************)
(* Model of src/app.py: the ticker-file loader, the column normalizer, the *)
(* record builder, the upsert gateway and the ingestion driver             *)
(* (run_ingestion), with the provider (yfinance) and the datastore         *)
(* (supabase) as nondeterministic collaborators.                           *)
(*                                                                         *)
(* Text is a sequence of one-character strings; None is the record         *)
(* [t |-> "none"].                                                         *)
(***************************************************************************)
EXTENDS Integers, Sequences, FiniteSets, TLC

\* ------------------------------------------------------------------ bounds
\* The longest ticker file (in lines) the driver specification reads.
MaxLines == 2

\* ------------------------------------------------------- program constants
MAX_RETRIES == 3

\* ------------------------------------------------------------------- text
UpperLetters ==
  <<"A","B","C","D","E","F","G","H","I","J","K","L","M",
    "N","O","P","Q","R","S","T","U","V","W","X","Y","Z">>
LowerLetters ==
  <<"a","b","c","d","e","f","g","h","i","j","k","l","m",
    "n","o","p","q","r","s","t","u","v","w","x","y","z">>
Digits == <<"0","1","2","3","4","5","6","7","8","9">>

Range(s) == { s[i] : i \in DOMAIN s }

IndexIn(s, c) == CHOOSE i \in DOMAIN s : s[i] = c

\* str.lower() and str.upper(), one character at a time
LowerChar(c) ==
  IF c \in Range(UpperLetters) THEN LowerLetters[IndexIn(UpperLetters, c)] ELSE c
UpperChar(c) ==
  IF c \in Range(LowerLetters) THEN UpperLetters[IndexIn(LowerLetters, c)] ELSE c
Lower(s) == [i \in DOMAIN s |-> LowerChar(s[i])]
Upper(s) == [i \in DOMAIN s |-> UpperChar(s[i])]

\* the characters str.strip() removes from ASCII text: space, \t, \n, \r,
\* \f, \v (0x0b) and the separators 0x1c to 0x1f
Whitespace == {" ", "\t", "\n", "\r", "\f", "", "", "", "", ""}

Min(S) == CHOOSE x \in S : \A y \in S : x <= y
Max(S) == CHOOSE x \in S : \A y \in S : x >= y

\* s.strip(cs): s from its first to its last character outside cs
StripValue(s, cs) ==
  LET keep == { i \in DOMAIN s : s[i] \notin cs } IN
    IF keep = {} THEN <<>> ELSE SubSeq(s, Min(keep), Max(keep))

\* (the argument is evaluated once, then stripped)
Strip(s, cs) == CHOOSE r \in { StripValue(v, cs) : v \in {s} } : TRUE

EndsWith(s, suffix) ==
  /\ Len(s) >= Len(suffix)
  /\ SubSeq(s, Len(s) - Len(suffix) + 1, Len(s)) = suffix

\* str(n) of a natural number
RECURSIVE IntToStr(_)
IntToStr(n) ==
  IF n < Len(Digits) THEN <<Digits[n + 1]>>
  ELSE IntToStr(n \div Len(Digits)) \o <<Digits[(n % Len(Digits)) + 1]>>

None == [t |-> "none"]

\* str(id) of a datastore id, or of None
StrOfId(id) == IF id = None THEN <<"N","o","n","e">> ELSE IntToStr(id.v)

\* ------------------------------------------------------ column normalizer
\* the character class [a-z0-9_]
NameChars == Range(LowerLetters) \cup Range(Digits) \cup {"_"}

\* re.sub(r'[^a-z0-9_]+', '_', s): every maximal run of characters outside
\* the class becomes one underscore (its first character is replaced, the
\* rest of the run is dropped)
SubDisallowedValue(s) ==
  LET sub == [i \in DOMAIN s |->
                IF s[i] \in NameChars THEN s[i]
                ELSE IF i = 1 \/ s[i - 1] \in NameChars THEN "_"
                ELSE ""]
  IN SelectSeq(sub, LAMBDA c : c # "")

SubDisallowed(s) == CHOOSE r \in { SubDisallowedValue(v) : v \in {s} } : TRUE

\* re.sub(r'_+', '_', s): every maximal run of underscores becomes one
SubUnderscoresValue(s) ==
  LET sub == [i \in DOMAIN s |->
                IF s[i] = "_" /\ i > 1 /\ s[i - 1] = "_" THEN "" ELSE s[i]]
  IN SelectSeq(sub, LAMBDA c : c # "")

SubUnderscores(s) == CHOOSE r \in { SubUnderscoresValue(v) : v \in {s} } : TRUE

\* faulty variant: the leading and trailing underscores are kept
clean_column_name_NoStrip(name) ==
  SubUnderscores(SubDisallowed(Lower(name)))

\* faulty variant: the underscores are stripped before the substitutions
clean_column_name_StripFirst(name) ==
  SubUnderscores(SubDisallowed(Strip(Lower(name), {"_"})))

\* lines 37-41
clean_column_name(name) ==
  Strip(SubUnderscores(SubDisallowed(Lower(name))), {"_"})

\* ---------------------------------------------------------- ticker loader
AX == <<".", "A", "X">>

\* faulty variant: the suffix is looked for in the entry as written
NormalizeTicker_CaseSensitive(line) ==
  LET ticker == Strip(line, Whitespace) IN
    IF ticker = <<>> THEN <<>>
    ELSE IF ~EndsWith(ticker, AX) THEN Upper(ticker) \o AX
    ELSE Upper(ticker)

\* one line of the file: stripped, upper-cased, suffixed when the suffix is
\* missing; <<>> for a blank line (which yields no ticker)
NormalizeTicker(line) ==
  LET ticker == Strip(line, Whitespace) IN
    IF ticker = <<>> THEN <<>>
    ELSE IF ~EndsWith(Upper(ticker), AX) THEN Upper(ticker) \o AX
    ELSE Upper(ticker)

\* lines 57-64: the tickers of the non-blank lines, in file order
TickersOfLines(lines) ==
  SelectSeq([i \in DOMAIN lines |-> NormalizeTicker(lines[i])], LAMBDA t : t # <<>>)

\* file.exists = FALSE: open() raises FileNotFoundError and the handler
\* returns []; otherwise the tickers of file.lines
get_asx_tickers_from_file(file) ==
  IF ~file.exists THEN <<>> ELSE TickersOfLines(file.lines)

\* ---------------------------------------------------------- record builder
\* A table (DataFrame) is [periods, labels, cells]: its columns are the
\* reporting periods, its rows the line items, cells[r][c] the value of line
\* item r in period c.  A period is a Timestamp [t |-> "ts", y, m, d, h] or,
\* in a malformed table, some other value.  A cell is NaN [t |-> "nan"], a
\* Timestamp, a number [t |-> "num", v], a boolean [t |-> "bool", b] or any
\* other object, given by its text [t |-> "obj", s].  An id of the store
\* is [t |-> "id", v] with v a positive number.
K_security_id == <<"s","e","c","u","r","i","t","y","_","i","d">>
K_report_date == <<"r","e","p","o","r","t","_","d","a","t","e">>
K_fiscal_year == <<"f","i","s","c","a","l","_","y","e","a","r">>
K_fiscal_quarter == <<"f","i","s","c","a","l","_","q","u","a","r","t","e","r">>

\* df.empty: some axis has length 0
DfEmpty(df) == Len(df.periods) = 0 \/ Len(df.labels) = 0

IsTimestamp(v) == v.t = "ts"

\* Timestamp.date(): the time of day is dropped
DateOf(ts) == [t |-> "date", y |-> ts.y, m |-> ts.m, d |-> ts.d]

\* lines 96-103: the conversion of one cell
ConvertCell(value) ==
  IF value.t = "nan" THEN None
  ELSE IF IsTimestamp(value) THEN DateOf(value)
  ELSE IF value.t \in {"num", "bool"} THEN value
  ELSE [t |-> "str", s |-> value.s]

\* lines 88-92: the header fields of a period's record
HeaderOf(index, security_id, fiscal_quarter) ==
  (K_security_id :> [t |-> "str", s |-> StrOfId(security_id)]) @@
  (K_report_date :> DateOf(index)) @@
  (K_fiscal_year :> [t |-> "num", v |-> index.y]) @@
  (K_fiscal_quarter :> fiscal_quarter)

\* lines 94-103: the line items of period c are assigned over the header in
\* row order: a key holds the cell of the last line item that cleans to it,
\* and a header field survives only where no line item cleans to its name
RecordOf(header, names, df, c) ==
  [k \in (DOMAIN header) \cup Range(names) |->
     IF k \in Range(names)
     THEN ConvertCell(df.cells[Max({ r \in DOMAIN names : names[r] = k })][c])
     ELSE header[k]]

\* index.date() raises AttributeError when a column label is no Timestamp
BuilderRaises(df) ==
  ~DfEmpty(df) /\ \E c \in DOMAIN df.periods : ~IsTimestamp(df.periods[c])

\* lines 81-106: one record per column of the table, in column order
prepare_dynamic_financial_data(df, security_id, fiscal_quarter) ==
  IF DfEmpty(df) THEN <<>>
  ELSE LET names == CHOOSE n \in { [r \in DOMAIN df.labels |->
                                      clean_column_name(df.labels[r])] } : TRUE
       IN [c \in DOMAIN df.periods |->
             RecordOf(HeaderOf(df.periods[c], security_id, fiscal_quarter),
                      names, df, c)]

\* ------------------------------------------------------------- datastore
\* The remote store: companies and securities are keyed by ticker / symbol
\* and carry the id the store gave them; each financial table is a set of
\* records.  An upsert takes the records of the batch in order: each one
\* overwrites the row that agrees with it on the conflict columns, or is
\* inserted when there is none.  A null agrees with a null.
ConflictKey(rec, cols) == [i \in DOMAIN cols |-> rec[cols[i]]]

\* faulty variant: the batch is inserted, no row is overwritten
UpsertRows_InsertOnly(rows, recs, cols) == rows \cup Range(recs)

\* what is left of the old rows, and of each key the last record of the batch
UpsertRows(rows, recs, cols) ==
  { r \in rows : \A i \in DOMAIN recs : ConflictKey(r, cols) # ConflictKey(recs[i], cols) }
    \cup { recs[i] : i \in { k \in DOMAIN recs :
                \A j \in DOMAIN recs :
                  j > k => ConflictKey(recs[j], cols) # ConflictKey(recs[k], cols) } }

\* a keyed table: the row of a known key keeps its id, a new key gets the next
UpsertKeyed(tbl, key, data) ==
  LET id == IF key \in DOMAIN tbl THEN tbl[key].id ELSE Cardinality(DOMAIN tbl) + 1 IN
    [k \in (DOMAIN tbl) \cup {key} |->
       IF k = key THEN [id |-> id, data |-> data] ELSE tbl[k]]

\* What one remote call does: it raises, or it answers with a response whose
\* data may be empty and whose error may be set.
Responses ==
  { [raised |-> TRUE, data |-> FALSE, error |-> FALSE] } \cup
  { [raised |-> FALSE, data |-> d, error |-> e] : d, e \in BOOLEAN }

\* the store holds a batch when the call answered with the rows written, or
\* answered without reporting an error
Applied(resp) == ~resp.raised /\ (resp.data \/ ~resp.error)

\* ---------------------------------------------------------- upsert gateway
\* faulty variant: the fiscal year is left out of the conflict columns
FinancialKey_NoYear == <<K_security_id, K_fiscal_quarter>>

\* lines 259, 285, 311: on_conflict_cols of the three statement tables
FinancialKey == <<K_security_id, K_fiscal_year, K_fiscal_quarter>>

\* faulty variant: an empty batch is sent like any other
GatewaySends_Always(data_records) == TRUE

\* line 114: an empty batch is not sent
GatewaySends(data_records) == data_records # <<>>

\* lines 114-136: the status the gateway returns
upload_data_to_supabase(data_records, resp) ==
  IF ~GatewaySends(data_records) THEN "skipped"
  ELSE IF resp.raised THEN "error"
  ELSE IF resp.data THEN "success"
  ELSE IF resp.error THEN "error"
  ELSE "success"

\* -------------------------------------------------------------- provider
\* ticker_obj.info: the property raises, or gives a dict that may be empty,
\* may lack longName and may hold an empty longName
Infos ==
  { [raised |-> TRUE, empty |-> TRUE, longName |-> None],
    [raised |-> FALSE, empty |-> TRUE, longName |-> None],
    [raised |-> FALSE, empty |-> FALSE, longName |-> None],
    [raised |-> FALSE, empty |-> FALSE, longName |-> [t |-> "str", s |-> <<>>]],
    [raised |-> FALSE, empty |-> FALSE, longName |-> [t |-> "str", s |-> <<"L","t","d">>]] }

\* line 195: not info or not info.get('longName')
InfoMissing(i) == i.empty \/ i.longName = None \/ i.longName.s = <<>>

Ts2023 == [t |-> "ts", y |-> 2023, m |-> 6, d |-> 30, h |-> 0]
Ts2022 == [t |-> "ts", y |-> 2022, m |-> 6, d |-> 30, h |-> 0]

EmptyFrame == [periods |-> <<>>, labels |-> <<>>, cells |-> <<>>]
FullFrame ==
  [periods |-> <<Ts2023, Ts2022>>,
   labels |-> << <<"N","e","t"," ","I","n","c","o","m","e">>, <<"E","P","S">> >>,
   cells |-> << <<[t |-> "num", v |-> 7], [t |-> "num", v |-> 5]>>,
                <<[t |-> "nan"], [t |-> "num", v |-> 1]>> >>]
\* a table whose column labels are not Timestamps
MalformedFrame ==
  [periods |-> << [t |-> "obj", s |-> <<"T","T","M">>] >>,
   labels |-> << <<"E","P","S">> >>,
   cells |-> << <<[t |-> "num", v |-> 1]>> >>]

\* what ticker_obj.financials / .balance_sheet / .cashflow may give
Frames == {EmptyFrame, FullFrame, MalformedFrame}

\* the lines a ticker file of the driver specification is made of
RawLines ==
  { <<"b","h","p">>, <<" ","C","B","A",".","a","x","\n">>, <<" ","\f","\n">> }

RECURSIVE SeqsUpTo(_, _)
SeqsUpTo(S, n) ==
  IF n = 0 THEN {<<>>}
  ELSE LET shorter == SeqsUpTo(S, n - 1) IN
         shorter \cup { Append(q, x) : q \in shorter, x \in S }

TickerFiles ==
  { [exists |-> FALSE, lines |-> <<>>] } \cup
  { [exists |-> TRUE, lines |-> l] : l \in SeqsUpTo(RawLines, MaxLines) }

\* ------------------------------------------------------------------ driver
StatementTables ==
  <<"financials.income_statements_annual",
    "financials.balance_sheets_annual",
    "financials.cash_flows_annual">>

VARIABLES
  tickerFile,               \* tickers_to_use.txt (line 26)
  db,                       \* the remote datastore
  supabase,                 \* the global client: "None" or "client" (line 22)
  pc,                       \* where run_ingestion is
  response,                 \* what run_ingestion returned, or None
  all_asx_tickers,          \* line 170
  ti,                       \* position of ticker_symbol in all_asx_tickers (line 178)
  retries,                  \* lines 183, 254, 280, 306
  company_id,               \* lines 184, 209
  security_id,              \* lines 185, 221
  core_data_success,        \* lines 187, 229
  info,                     \* line 192
  stmt,                     \* 1 income statement, 2 balance sheet, 3 cash flow
  df,                       \* the table fetched in this attempt (257, 283, 309)
  data_records,             \* the records built in this attempt (258, 284, 310)
  ticker_financials_failed, \* line 249
  skipped_tickers,          \* line 166
  successful_tickers,       \* line 167
  partially_failed_tickers, \* line 168
  \* history of the run, read by the properties only
  invocations,              \* attempts begun in the current retry loop
  attempt_log,              \* the remote calls of the current attempt, in order
  stmt_result,              \* how each statement of the current ticker ended:
                            \* the gateway's status, or "exhausted"
  delays,                   \* REQUEST_DELAY_SECONDS sleeps for the current ticker
  remote_resp,              \* the store's answer to the gateway's call, or None
  \* a function under test, applied outside a run
  fn_step,                  \* how many times it has been applied
  fn_in,                    \* its argument
  fn_out,                   \* its result
  fn_out2                   \* the result of applying it again

vars ==
  <<tickerFile, db, supabase, pc, response, all_asx_tickers, ti, retries,
    company_id, security_id, core_data_success, info, stmt, df, data_records,
    ticker_financials_failed, skipped_tickers, successful_tickers,
    partially_failed_tickers, invocations, attempt_log, stmt_result, delays,
    remote_resp, fn_step, fn_in, fn_out, fn_out2>>

tickerVars ==
  <<retries, company_id, security_id, core_data_success, info, stmt, df,
    data_records, ticker_financials_failed, invocations, attempt_log,
    stmt_result, delays, remote_resp>>

listVars == <<skipped_tickers, successful_tickers, partially_failed_tickers>>

fnVars == <<fn_step, fn_in, fn_out, fn_out2>>

envVars == <<tickerFile, supabase, all_asx_tickers, fnVars>>

ticker_symbol == all_asx_tickers[ti]

NoResults == [s \in DOMAIN StatementTables |-> "pending"]

EmptyDb ==
  [companies |-> <<>>, securities |-> <<>>,
   fin |-> [tb \in Range(StatementTables) |-> {}]]

Called(call, ok) == [call |-> call, ok |-> ok]

\* lines 22, 26, 146-168: the state run_ingestion is entered in
DriverStart ==
  /\ tickerFile \in TickerFiles
  /\ db = EmptyDb
  /\ supabase \in {"None", "client"}
  /\ pc = "init_client"
  /\ response = None
  /\ all_asx_tickers = <<>>
  /\ ti = 0
  /\ retries = 0
  /\ company_id = None
  /\ security_id = None
  /\ core_data_success = FALSE
  /\ info = None
  /\ stmt = 0
  /\ df = EmptyFrame
  /\ data_records = <<>>
  /\ ticker_financials_failed = FALSE
  /\ skipped_tickers = <<>>
  /\ successful_tickers = <<>>
  /\ partially_failed_tickers = <<>>
  /\ invocations = 0
  /\ attempt_log = <<>>
  /\ stmt_result = NoResults
  /\ delays = 0
  /\ remote_resp = None

Init ==
  /\ DriverStart
  /\ fn_step = 0
  /\ fn_in = None
  /\ fn_out = None
  /\ fn_out2 = None

\* lines 156-163: the client is created on first use; a failure ends the run
InitClient ==
  /\ pc = "init_client"
  /\ \E created \in BOOLEAN :
       IF supabase # "None" \/ created
       THEN /\ supabase' = "client"
            /\ pc' = "load"
            /\ response' = response
       ELSE /\ supabase' = supabase
            /\ pc' = "done"
            /\ response' = [status |-> "error", code |-> 500]
  /\ UNCHANGED <<tickerFile, db, all_asx_tickers, ti, tickerVars, listVars,
                 fnVars>>

\* faulty variant: the empty list is not checked for
NoTickersLoaded_Never(tickers) == FALSE

\* line 172: if not all_asx_tickers
NoTickersLoaded(tickers) == tickers = <<>>

\* lines 170-175: load the tickers; none loaded ends the run
LoadTickers ==
  /\ pc = "load"
  /\ all_asx_tickers' = get_asx_tickers_from_file(tickerFile)
  /\ IF NoTickersLoaded(all_asx_tickers')
     THEN /\ pc' = "done"
          /\ response' = [status |-> "error", code |-> 400]
          /\ ti' = ti
     ELSE /\ pc' = "for_ticker"
          /\ response' = response
          /\ ti' = 1
  /\ UNCHANGED <<tickerFile, db, supabase, tickerVars, listVars, fnVars>>

\* lines 178-187: the next ticker of the list
BeginTicker ==
  /\ pc = "for_ticker"
  /\ ti <= Len(all_asx_tickers)
  /\ retries' = 0
  /\ company_id' = None
  /\ security_id' = None
  /\ core_data_success' = FALSE
  /\ invocations' = 0
  /\ attempt_log' = <<>>
  /\ stmt_result' = NoResults
  /\ delays' = 0
  /\ remote_resp' = None
  /\ stmt' = 0
  /\ pc' = "core_loop"
  /\ UNCHANGED <<envVars, db, response, ti, info, df, data_records,
                 ticker_financials_failed, listVars>>

\* faulty variant: one attempt too many
CoreLoopTest_OffByOne(r) == r <= MAX_RETRIES

\* line 189
CoreLoopTest(r) == r < MAX_RETRIES

CoreLoopHead ==
  /\ pc = "core_loop"
  /\ IF CoreLoopTest(retries)
     THEN /\ pc' = "core_info"
          /\ invocations' = invocations + 1
          /\ attempt_log' = <<>>
     ELSE /\ pc' = "core_exit"
          /\ UNCHANGED <<invocations, attempt_log>>
  /\ UNCHANGED <<envVars, db, response, ti, retries, company_id, security_id,
                 core_data_success, info, stmt, df, data_records,
                 ticker_financials_failed, stmt_result, delays, remote_resp, listVars>>

\* lines 231-236: the except clause of the entity-resolution loop
CoreExcept ==
  /\ retries' = retries + 1
  /\ pc' = "core_loop"

\* lines 191-196: fetch the metadata of the ticker
FetchInfo ==
  /\ pc = "core_info"
  /\ \E i \in Infos :
       /\ info' = IF i.raised THEN info ELSE i
       /\ IF i.raised \/ InfoMissing(i)
          THEN /\ attempt_log' = Append(attempt_log, Called("info", FALSE))
               /\ CoreExcept
          ELSE /\ attempt_log' = Append(attempt_log, Called("info", TRUE))
               /\ pc' = "core_company"
               /\ retries' = retries
  /\ UNCHANGED <<envVars, db, response, ti, company_id, security_id,
                 core_data_success, stmt, df, data_records,
                 ticker_financials_failed, invocations, stmt_result, delays, remote_resp,
                 listVars>>

\* lines 198-207
CompanyData(symbol, i) == [ticker |-> symbol, company_name |-> i.longName]

\* lines 209 and 221: resp.data[0]['id'] if resp.data else None
IdOf(resp, tbl, key) ==
  IF resp.data THEN [t |-> "id", v |-> tbl[key].id] ELSE None

\* faulty variant: a missing id is not checked for
IdMissing_Never(id) == FALSE

\* lines 211 and 223: if not company_id / if not security_id (None and the
\* id 0 are falsy)
IdMissing(id) == id = None \/ id.v = 0

\* lines 208-212: upsert the Company and read its id
UpsertCompany ==
  /\ pc = "core_company"
  /\ \E resp \in Responses :
       /\ db' = IF Applied(resp)
                THEN [db EXCEPT !.companies =
                        UpsertKeyed(@, ticker_symbol, CompanyData(ticker_symbol, info))]
                ELSE db
       /\ IF resp.raised
          THEN /\ company_id' = company_id
               /\ attempt_log' = Append(attempt_log, Called("company", FALSE))
               /\ CoreExcept
          ELSE /\ company_id' = IdOf(resp, db'.companies, ticker_symbol)
               /\ attempt_log' =
                    Append(attempt_log, Called("company", company_id' # None))
               /\ IF IdMissing(company_id')
                  THEN CoreExcept
                  ELSE pc' = "core_security" /\ retries' = retries
  /\ UNCHANGED <<envVars, response, ti, security_id, core_data_success, info,
                 stmt, df, data_records, ticker_financials_failed, invocations,
                 stmt_result, delays, remote_resp, listVars>>

\* lines 214-219
SecurityData(symbol, cid) ==
  [company_id |-> StrOfId(cid), symbol |-> symbol, security_type |-> "COMMON_STOCK"]

\* lines 220-230: upsert the Security and read its id; with an id the loop
\* is left with core_data_success set
UpsertSecurity ==
  /\ pc = "core_security"
  /\ \E resp \in Responses :
       /\ db' = IF Applied(resp)
                THEN [db EXCEPT !.securities =
                        UpsertKeyed(@, ticker_symbol, SecurityData(ticker_symbol, company_id))]
                ELSE db
       /\ IF resp.raised
          THEN /\ security_id' = security_id
               /\ attempt_log' = Append(attempt_log, Called("security", FALSE))
               /\ core_data_success' = core_data_success
               /\ CoreExcept
          ELSE /\ security_id' = IdOf(resp, db'.securities, ticker_symbol)
               /\ attempt_log' =
                    Append(attempt_log, Called("security", security_id' # None))
               /\ IF IdMissing(security_id')
                  THEN core_data_success' = core_data_success /\ CoreExcept
                  ELSE /\ core_data_success' = TRUE
                       /\ pc' = "core_exit"
                       /\ retries' = retries
  /\ UNCHANGED <<envVars, response, ti, company_id, info, stmt, df,
                 data_records, ticker_financials_failed, invocations,
                 stmt_result, delays, remote_resp, listVars>>

\* faulty variant: the failed entity resolution is not checked for
CoreFailed_Never(success) == FALSE

\* line 238
CoreFailed(success) == ~success

\* faulty variant: a ticker that cannot be resolved ends the run
SkipTicker_AbortsRun ==
  /\ pc = "core_exit"
  /\ ~core_data_success
  /\ response' = [status |-> "error", code |-> 500]
  /\ pc' = "done"
  /\ UNCHANGED <<envVars, db, ti, tickerVars, listVars>>

\* lines 238-243: entity resolution failed on every attempt: skip the ticker
SkipTicker ==
  /\ pc = "core_exit"
  /\ CoreFailed(core_data_success)
  /\ skipped_tickers' = Append(skipped_tickers, ticker_symbol)
  /\ ti' = ti + 1
  /\ info' = None                \* dead: read only by the attempt that set it
  /\ pc' = "for_ticker"
  /\ UNCHANGED <<envVars, db, response, retries, company_id, security_id,
                 core_data_success, stmt, df, data_records,
                 ticker_financials_failed, invocations, attempt_log,
                 stmt_result, delays, remote_resp, successful_tickers,
                 partially_failed_tickers>>

\* lines 245-254: entity resolution succeeded: on to the income statement
BeginStatements ==
  /\ pc = "core_exit"
  /\ ~CoreFailed(core_data_success)
  /\ ticker_financials_failed' = FALSE
  /\ stmt' = 1
  /\ retries' = 0
  /\ invocations' = 0
  /\ attempt_log' = <<>>
  /\ info' = None                \* dead: read only by the attempt that set it
  /\ pc' = "stmt_loop"
  /\ UNCHANGED <<envVars, db, response, ti, company_id, security_id,
                 core_data_success, df, data_records, stmt_result,
                 delays, remote_resp, listVars>>

\* lines 255, 281, 307
StmtLoopTest(r) == r < MAX_RETRIES

StmtLoopHead ==
  /\ pc = "stmt_loop"
  /\ IF StmtLoopTest(retries)
     THEN /\ pc' = "stmt_fetch"
          /\ invocations' = invocations + 1
          /\ attempt_log' = <<>>
     ELSE /\ pc' = "stmt_exit"
          /\ UNCHANGED <<invocations, attempt_log>>
  /\ UNCHANGED <<envVars, db, response, ti, retries, company_id, security_id,
                 core_data_success, info, stmt, df, data_records,
                 ticker_financials_failed, stmt_result, delays, remote_resp, listVars>>

\* lines 264-269, 290-295, 316-321: the except clause of a statement loop
StmtExcept ==
  /\ retries' = retries + 1
  /\ pc' = "stmt_loop"

\* lines 257, 283, 309: fetch the statement from the provider
FetchStatement ==
  /\ pc = "stmt_fetch"
  /\ \E raised \in BOOLEAN, frame \in Frames :
       IF raised
       THEN /\ attempt_log' = Append(attempt_log, Called("fetch", FALSE))
            /\ df' = df
            /\ StmtExcept
       ELSE /\ attempt_log' = Append(attempt_log, Called("fetch", TRUE))
            /\ df' = frame
            /\ pc' = "stmt_build"
            /\ retries' = retries
  /\ UNCHANGED <<envVars, db, response, ti, company_id, security_id,
                 core_data_success, info, stmt, data_records,
                 ticker_financials_failed, invocations, stmt_result, delays, remote_resp,
                 listVars>>

\* lines 258, 284, 310: build the records of the statement
BuildRecords ==
  /\ pc = "stmt_build"
  /\ IF BuilderRaises(df)
     THEN /\ attempt_log' = Append(attempt_log, Called("build", FALSE))
          /\ data_records' = data_records
          /\ StmtExcept
     ELSE /\ attempt_log' = Append(attempt_log, Called("build", TRUE))
          /\ data_records' = prepare_dynamic_financial_data(df, security_id, None)
          /\ pc' = "stmt_upload"
          /\ retries' = retries
  /\ UNCHANGED <<envVars, db, response, ti, company_id, security_id,
                 core_data_success, info, stmt, df, ticker_financials_failed,
                 invocations, stmt_result, delays, remote_resp, listVars>>

\* faulty variant: an error result of the gateway is not flagged
UploadFailed_Never(status) == FALSE

\* lines 261, 287, 313
UploadFailed(status) == status = "error"

\* faulty variant: an error result of the gateway is retried like a raised
\* failure
UploadStatement_RetriesOnError ==
  /\ pc = "stmt_upload"
  /\ \E resp \in Responses :
       LET status == upload_data_to_supabase(data_records, resp) IN
         /\ db' = IF GatewaySends(data_records) /\ Applied(resp)
                  THEN [db EXCEPT !.fin[StatementTables[stmt]] =
                          UpsertRows(@, data_records, FinancialKey)]
                  ELSE db
         /\ attempt_log' =
              attempt_log
                \o <<Called("gateway", status # "error")>>
                \o (IF GatewaySends(data_records)
                    THEN <<Called("upsert", Applied(resp))>> ELSE <<>>)
         /\ remote_resp' = IF GatewaySends(data_records) THEN resp ELSE None
         /\ stmt_result' = [stmt_result EXCEPT ![stmt] = status]
         /\ ticker_financials_failed' =
              IF UploadFailed(status) THEN TRUE ELSE ticker_financials_failed
         /\ IF status = "error"
            THEN StmtExcept
            ELSE pc' = "stmt_exit" /\ retries' = retries
  /\ UNCHANGED <<envVars, response, ti, company_id, security_id,
                 core_data_success, info, stmt, df, data_records, invocations,
                 delays, listVars>>

\* lines 259-263, 285-289, 311-315: hand the records to the gateway, flag an
\* error result, and leave the loop
UploadStatement ==
  /\ pc = "stmt_upload"
  /\ \E resp \in Responses :
       LET status == upload_data_to_supabase(data_records, resp) IN
         /\ db' = IF GatewaySends(data_records) /\ Applied(resp)
                  THEN [db EXCEPT !.fin[StatementTables[stmt]] =
                          UpsertRows(@, data_records, FinancialKey)]
                  ELSE db
         /\ attempt_log' =
              attempt_log
                \o <<Called("gateway", status # "error")>>
                \o (IF GatewaySends(data_records)
                    THEN <<Called("upsert", Applied(resp))>> ELSE <<>>)
         /\ remote_resp' = IF GatewaySends(data_records) THEN resp ELSE None
         /\ stmt_result' = [stmt_result EXCEPT ![stmt] = status]
         /\ ticker_financials_failed' =
              IF UploadFailed(status) THEN TRUE ELSE ticker_financials_failed
  /\ pc' = "stmt_exit"
  /\ UNCHANGED <<envVars, response, ti, retries, company_id, security_id,
                 core_data_success, info, stmt, df, data_records, invocations,
                 delays, listVars>>

\* faulty variant: exhaustion is flagged one failure early
StmtExhausted_OffByOne(r) == r >= MAX_RETRIES - 1

\* lines 270, 296, 322
StmtExhausted(r) == r = MAX_RETRIES

\* faulty variant: a failed statement ends the statements of the ticker
StmtExit_AbortsTicker ==
  /\ pc = "stmt_exit"
  /\ ticker_financials_failed' =
       IF StmtExhausted(retries) THEN TRUE ELSE ticker_financials_failed
  /\ stmt_result' =
       IF StmtExhausted(retries)
       THEN [stmt_result EXCEPT ![stmt] = "exhausted"] ELSE stmt_result
  /\ delays' = delays + 1
  /\ remote_resp' = None
  /\ df' = EmptyFrame
  /\ data_records' = <<>>
  /\ IF stmt < Len(StatementTables) /\ ~ticker_financials_failed'
     THEN /\ stmt' = stmt + 1
          /\ retries' = 0
          /\ invocations' = 0
          /\ attempt_log' = <<>>
          /\ pc' = "stmt_loop"
     ELSE /\ pc' = "classify"
          /\ UNCHANGED <<stmt, retries, invocations, attempt_log>>
  /\ UNCHANGED <<envVars, db, response, ti, company_id, security_id,
                 core_data_success, info, listVars>>

\* faulty variant: the inter-request delay follows only a statement that did
\* not fail
StmtExit_NoDelayOnFailure ==
  /\ pc = "stmt_exit"
  /\ ticker_financials_failed' =
       IF StmtExhausted(retries) THEN TRUE ELSE ticker_financials_failed
  /\ stmt_result' =
       IF StmtExhausted(retries)
       THEN [stmt_result EXCEPT ![stmt] = "exhausted"] ELSE stmt_result
  /\ delays' = IF stmt_result'[stmt] \in {"error", "exhausted"}
               THEN delays ELSE delays + 1
  /\ remote_resp' = None
  /\ df' = EmptyFrame
  /\ data_records' = <<>>
  /\ IF stmt < Len(StatementTables)
     THEN /\ stmt' = stmt + 1
          /\ retries' = 0
          /\ invocations' = 0
          /\ attempt_log' = <<>>
          /\ pc' = "stmt_loop"
     ELSE /\ pc' = "classify"
          /\ UNCHANGED <<stmt, retries, invocations, attempt_log>>
  /\ UNCHANGED <<envVars, db, response, ti, company_id, security_id,
                 core_data_success, info, listVars>>

\* lines 270-280, 296-306, 322-327: after the loop: flag exhaustion, sleep
\* REQUEST_DELAY_SECONDS, and go on to the next statement or to the verdict
StmtExit ==
  /\ pc = "stmt_exit"
  /\ ticker_financials_failed' =
       IF StmtExhausted(retries) THEN TRUE ELSE ticker_financials_failed
  /\ stmt_result' =
       IF StmtExhausted(retries)
       THEN [stmt_result EXCEPT ![stmt] = "exhausted"] ELSE stmt_result
  /\ delays' = delays + 1
  /\ remote_resp' = None
  /\ df' = EmptyFrame            \* dead: the statement's table and records
  /\ data_records' = <<>>        \* are read only by the attempt that set them
  /\ IF stmt < Len(StatementTables)
     THEN /\ stmt' = stmt + 1
          /\ retries' = 0
          /\ invocations' = 0
          /\ attempt_log' = <<>>
          /\ pc' = "stmt_loop"
     ELSE /\ pc' = "classify"
          /\ UNCHANGED <<stmt, retries, invocations, attempt_log>>
  /\ UNCHANGED <<envVars, db, response, ti, company_id, security_id,
                 core_data_success, info, listVars>>

\* faulty variant: a ticker with a failed statement is put in both lists
ClassifyTicker_Both ==
  /\ pc = "classify"
  /\ successful_tickers' = Append(successful_tickers, ticker_symbol)
  /\ partially_failed_tickers' =
       IF ticker_financials_failed
       THEN Append(partially_failed_tickers, ticker_symbol)
       ELSE partially_failed_tickers
  /\ ti' = ti + 1
  /\ pc' = "for_ticker"
  /\ UNCHANGED <<envVars, db, response, tickerVars, skipped_tickers>>

\* lines 329-332: the verdict on the ticker
ClassifyTicker ==
  /\ pc = "classify"
  /\ IF ~ticker_financials_failed
     THEN /\ successful_tickers' = Append(successful_tickers, ticker_symbol)
          /\ UNCHANGED partially_failed_tickers
     ELSE /\ partially_failed_tickers' = Append(partially_failed_tickers, ticker_symbol)
          /\ UNCHANGED successful_tickers
  /\ ti' = ti + 1
  /\ pc' = "for_ticker"
  /\ UNCHANGED <<envVars, db, response, tickerVars, skipped_tickers>>

\* faulty variant: any skipped or failed ticker makes the run an error
OverallStatus_ErrorOnAnyFailure(skipped, partial, successful) ==
  IF skipped # <<>> \/ partial # <<>> THEN "error" ELSE "success"

\* lines 343-345
OverallStatus(skipped, partial, successful) ==
  IF skipped # <<>> \/ partial # <<>>
  THEN (IF successful # <<>> THEN "partial_success" ELSE "error")
  ELSE "success"

\* lines 334-347: the list is done: summarise and answer
Summarize ==
  /\ pc = "for_ticker"
  /\ ti > Len(all_asx_tickers)
  /\ response' =
       [status |-> OverallStatus(skipped_tickers, partially_failed_tickers,
                                 successful_tickers),
        code |-> 200,
        attempted |-> Len(all_asx_tickers),
        successful |-> Len(successful_tickers),
        partially_failed |-> Len(partially_failed_tickers),
        skipped |-> Len(skipped_tickers)]
  /\ pc' = "done"
  /\ UNCHANGED <<envVars, db, ti, tickerVars, listVars>>

Next ==
  \/ InitClient
  \/ LoadTickers
  \/ BeginTicker
  \/ CoreLoopHead
  \/ FetchInfo
  \/ UpsertCompany
  \/ UpsertSecurity
  \/ SkipTicker
  \/ BeginStatements
  \/ StmtLoopHead
  \/ FetchStatement
  \/ BuildRecords
  \/ UploadStatement
  \/ StmtExit
  \/ ClassifyTicker
  \/ Summarize

Spec == Init /\ [][Next]_vars

\* The handler is sequential code whose sleeps are finite: a step that can
\* be taken is taken.
FairSpec == Spec /\ WF_vars(Next)

\* ------------------------------------------- functions applied outside a run
\* The helpers of app.py are also importable on their own.  The
\* specifications below apply one of them to every argument of a bounded set
\* while run_ingestion is not running.
driverVars ==
  <<tickerFile, db, supabase, pc, response, all_asx_tickers, ti, tickerVars,
    listVars>>

DriverIdle ==
  /\ tickerFile = [exists |-> FALSE, lines |-> <<>>]
  /\ db = EmptyDb
  /\ pc = "idle"
  /\ response = None
  /\ all_asx_tickers = <<>>
  /\ ti = 0
  /\ retries = 0
  /\ company_id = None
  /\ security_id = None
  /\ core_data_success = FALSE
  /\ info = None
  /\ stmt = 0
  /\ df = EmptyFrame
  /\ data_records = <<>>
  /\ ticker_financials_failed = FALSE
  /\ skipped_tickers = <<>>
  /\ successful_tickers = <<>>
  /\ partially_failed_tickers = <<>>
  /\ invocations = 0
  /\ attempt_log = <<>>
  /\ stmt_result = NoResults
  /\ delays = 0
  /\ remote_resp = None

\* ---- clean_column_name over a bounded alphabet
\* The longest label the normalizer specification reads.
MaxLabelLen == 4

\* an upper-case letter, a lower-case letter, a digit, the underscore, a
\* space and a punctuation mark
LabelChars == {"A", "b", "1", "_", " ", "-"}

Labels == SeqsUpTo(LabelChars, MaxLabelLen)

NormalizerInit ==
  /\ DriverIdle
  /\ supabase = "None"
  /\ fn_step = 0
  /\ fn_in \in Labels
  /\ fn_out = None
  /\ fn_out2 = None

\* clean_column_name(fn_in)
Normalize ==
  /\ fn_step = 0
  /\ fn_out' = clean_column_name(fn_in)
  /\ fn_step' = 1
  /\ UNCHANGED <<driverVars, fn_in, fn_out2>>

\* clean_column_name(clean_column_name(fn_in))
NormalizeAgain ==
  /\ fn_step = 1
  /\ fn_out2' = clean_column_name(fn_out)
  /\ fn_step' = 2
  /\ UNCHANGED <<driverVars, fn_in, fn_out>>

NormalizerNext ==
  \/ Normalize
  \/ NormalizeAgain

NormalizerSpec == NormalizerInit /\ [][NormalizerNext]_vars

\* ---- get_asx_tickers_from_file over one-line files
\* The longest file entry the ticker specification reads.
MaxEntryLen == 6

\* letters of both cases, the dot, a blank and a form feed
EntryChars == {"b", "a", "X", ".", " ", "\f"}

Entries == SeqsUpTo(EntryChars, MaxEntryLen)

TickerInit ==
  /\ DriverIdle
  /\ supabase = "None"
  /\ fn_step = 0
  /\ fn_in \in Entries
  /\ fn_out = None
  /\ fn_out2 = None

\* the tickers of the file whose one line is fn_in
LoadEntry ==
  /\ fn_step = 0
  /\ fn_out' = get_asx_tickers_from_file([exists |-> TRUE, lines |-> <<fn_in>>])
  /\ fn_step' = 1
  /\ UNCHANGED <<driverVars, fn_in, fn_out2>>

\* the tickers of the file whose lines are the tickers loaded before
LoadAgain ==
  /\ fn_step = 1
  /\ fn_out2' = get_asx_tickers_from_file([exists |-> TRUE, lines |-> fn_out])
  /\ fn_step' = 2
  /\ UNCHANGED <<driverVars, fn_in, fn_out>>

TickerNext ==
  \/ LoadEntry
  \/ LoadAgain

TickerSpec == TickerInit /\ [][TickerNext]_vars

\* ---- prepare_dynamic_financial_data over bounded tables
\* The most line items and the most periods of a table the builder
\* specification reads.
MaxItems == 2
MaxPeriods == 2

\* a second period of fiscal year 2023
Ts2023H2 == [t |-> "ts", y |-> 2023, m |-> 12, d |-> 31, h |-> 0]

PeriodPool == {Ts2023, Ts2022, Ts2023H2}

\* the columns of a table are distinct periods
PeriodLists ==
  { ps \in SeqsUpTo(PeriodPool, MaxPeriods) :
      \A i, j \in DOMAIN ps : i # j => ps[i] # ps[j] }

\* line items: a label and the kind of value its cells hold.  Two labels
\* differ in letter case only, four clean to the name of a header field.
LineItems ==
  { [label |-> <<"N","e","t"," ","I","n","c","o","m","e">>, kind |-> "num"],
    [label |-> <<"E","P","S">>, kind |-> "num"],
    [label |-> <<"e","p","s">>, kind |-> "nan"],
    [label |-> <<"F","i","s","c","a","l"," ","Y","e","a","r">>, kind |-> "num"],
    [label |-> <<"S","e","c","u","r","i","t","y"," ","I","D">>, kind |-> "obj"],
    [label |-> <<"R","e","p","o","r","t","-","D","a","t","e">>, kind |-> "ts"],
    [label |-> <<"F","i","s","c","a","l"," ","Q","u","a","r","t","e","r">>,
     kind |-> "bool"] }

\* the cell of line item r (of the given kind) in period c
CellOf(kind, r, c) ==
  IF kind = "num" THEN [t |-> "num", v |-> 10 * r + c]
  ELSE IF kind = "nan" THEN [t |-> "nan"]
  ELSE IF kind = "ts" THEN [t |-> "ts", y |-> 2024, m |-> 2, d |-> 10 + c, h |-> 9]
  ELSE IF kind = "bool" THEN [t |-> "bool", b |-> TRUE]
  ELSE [t |-> "obj", s |-> <<"n", "/", "a">>]

TableOf(items, periods) ==
  [periods |-> periods,
   labels |-> [r \in DOMAIN items |-> items[r].label],
   cells |-> [r \in DOMAIN items |->
                [c \in DOMAIN periods |-> CellOf(items[r].kind, r, c)]]]

Tables ==
  { TableOf(items, periods) :
      items \in SeqsUpTo(LineItems, MaxItems), periods \in PeriodLists }

SecurityIds == { [t |-> "id", v |-> 7], [t |-> "id", v |-> 12] }

FiscalQuarters == { None, [t |-> "str", s |-> <<"Q", "1">>] }

BuilderInit ==
  /\ DriverIdle
  /\ supabase = "None"
  /\ fn_step = 0
  /\ fn_in \in [df : Tables, security_id : SecurityIds,
                fiscal_quarter : FiscalQuarters]
  /\ fn_out = None
  /\ fn_out2 = None

\* prepare_dynamic_financial_data(df, security_id, fiscal_quarter)
BuildTable ==
  /\ fn_step = 0
  /\ fn_out' = prepare_dynamic_financial_data(fn_in.df, fn_in.security_id,
                                              fn_in.fiscal_quarter)
  /\ fn_step' = 1
  /\ UNCHANGED <<driverVars, fn_in, fn_out2>>

BuilderNext == BuildTable

BuilderSpec == BuilderInit /\ [][BuilderNext]_vars

\* ---- upload_data_to_supabase sending one batch twice
\* the rows of a statement table before the batch is sent: none, or those
\* of an earlier upload for security 7
PriorRows ==
  { {},
    Range(prepare_dynamic_financial_data(FullFrame, [t |-> "id", v |-> 7], None)) }

\* the batches the builder makes of the bounded tables
Batches ==
  { prepare_dynamic_financial_data(a.df, a.security_id, a.fiscal_quarter) :
      a \in [df : Tables, security_id : SecurityIds,
             fiscal_quarter : FiscalQuarters] }

\* lines 119-122: the rows of a statement table after the store has taken
\* the batch with the conflict columns of the statement tables
StoreBatch(rows, batch) == UpsertRows(rows, batch, FinancialKey)

\* lines 114-136: one call of the gateway on a table holding rows, answered
\* by resp: the status returned and the rows the table holds afterwards
GatewayCall(rows, batch, resp) ==
  [status |-> upload_data_to_supabase(batch, resp),
   rows |-> IF GatewaySends(batch) /\ Applied(resp)
            THEN StoreBatch(rows, batch) ELSE rows]

\* the client has been created (lines 156-163); run_ingestion is not running
UpsertInit ==
  /\ DriverIdle
  /\ supabase = "client"
  /\ fn_step = 0
  /\ fn_in \in [rows : PriorRows, data_records : Batches]
  /\ fn_out = None
  /\ fn_out2 = None

\* the batch is sent
SendBatch ==
  /\ pc = "idle"
  /\ fn_step = 0
  /\ supabase = "client"
  /\ \E resp \in Responses :
       fn_out' = GatewayCall(fn_in.rows, fn_in.data_records, resp)
  /\ fn_step' = 1
  /\ UNCHANGED <<driverVars, fn_in, fn_out2>>

\* the same batch is sent again
SendBatchAgain ==
  /\ pc = "idle"
  /\ fn_step = 1
  /\ supabase = "client"
  /\ \E resp \in Responses :
       fn_out2' = GatewayCall(fn_out.rows, fn_in.data_records, resp)
  /\ fn_step' = 2
  /\ UNCHANGED <<driverVars, fn_in, fn_out>>

\* ---- run_ingestion run twice against unchanged provider data
\* the symbols of the tickers a file of the driver specification can give
Symbols == { NormalizeTicker(l) : l \in RawLines } \ {<<>>}

\* what the provider holds: the info of every ticker and, for every ticker
\* and statement, a table the builder accepts
Providers ==
  [info : { i \in Infos : ~i.raised /\ ~InfoMissing(i) },
   frames : [Symbols -> [DOMAIN StatementTables -> {EmptyFrame, FullFrame}]]]

\* run_ingestion is entered with an empty store; fn_in is what the provider
\* holds, fn_step counts the runs that have ended
RerunInit ==
  /\ DriverStart
  /\ fn_step = 0
  /\ fn_in \in Providers
  /\ fn_out = None
  /\ fn_out2 = None

\* a step in which every call succeeds and the provider gives what it holds:
\* the client is there, info and the statement tables are those of fn_in,
\* both entity upserts return an id, the gateway returns no error
AllCallsSucceed ==
  /\ pc = "init_client" => pc' = "load"
  /\ pc = "core_info" => (pc' = "core_company" /\ info' = fn_in.info)
  /\ pc = "core_company" => pc' = "core_security"
  /\ pc = "core_security" => pc' = "core_exit"
  /\ pc = "stmt_fetch" =>
       (pc' = "stmt_build" /\ df' = fn_in.frames[ticker_symbol][stmt])
  /\ pc = "stmt_upload" => stmt_result'[stmt] # "error"

\* a step of run_ingestion in a run whose calls all succeed
SucceedingStep == Next /\ AllCallsSucceed

\* lines 146-168: the first run has answered; run_ingestion is entered again
\* in the same process: the client stays, the locals start afresh, the
\* store is as the first run left it (kept in fn_out)
StartSecondRun ==
  /\ pc = "done"
  /\ response.code = 200
  /\ fn_step = 0
  /\ fn_step' = 1
  /\ fn_out' = db
  /\ pc' = "init_client"
  /\ response' = None
  /\ all_asx_tickers' = <<>>
  /\ ti' = 0
  /\ retries' = 0
  /\ company_id' = None
  /\ security_id' = None
  /\ core_data_success' = FALSE
  /\ info' = None
  /\ stmt' = 0
  /\ df' = EmptyFrame
  /\ data_records' = <<>>
  /\ ticker_financials_failed' = FALSE
  /\ skipped_tickers' = <<>>
  /\ successful_tickers' = <<>>
  /\ partially_failed_tickers' = <<>>
  /\ invocations' = 0
  /\ attempt_log' = <<>>
  /\ stmt_result' = NoResults
  /\ delays' = 0
  /\ remote_resp' = None
  /\ UNCHANGED <<tickerFile, db, supabase, fn_in, fn_out2>>

UpsertNext ==
  \/ SendBatch
  \/ SendBatchAgain
  \/ SucceedingStep
  \/ StartSecondRun

\* one batch sent twice, or the whole ingestion run twice
UpsertStart == UpsertInit \/ RerunInit

UpsertSpec == UpsertStart /\ [][UpsertNext]_vars

\* ------------------------------------------------------------- properties
Issued(call) == \E i \in DOMAIN attempt_log : attempt_log[i].call = call

Returned(call) == \E i \in DOMAIN attempt_log : attempt_log[i] = Called(call, TRUE)

Processed ==
  Len(successful_tickers) + Len(partially_failed_tickers) + Len(skipped_tickers)

StatementFailed(result) == result \in {"error", "exhausted"}

\* the file gives no ticker: it is missing, or every line of it is blank
NoTickerInFile ==
  \/ ~tickerFile.exists
  \/ \A i \in DOMAIN tickerFile.lines : Range(tickerFile.lines[i]) \subseteq Whitespace

\* C1: in every attempt a Security upsert is issued only after the Company
\* upsert of that attempt returned an id, and a financial-statement upsert is
\* issued only for a ticker whose Security upsert returned an id; in the
\* store, every Security refers to a stored Company and every financial row
\* to a stored Security.
C1_WriteOrder ==
  /\ \A i \in DOMAIN attempt_log :
       /\ attempt_log[i].call = "security" =>
            /\ \E j \in 1..(i - 1) : attempt_log[j] = Called("company", TRUE)
            /\ company_id # None
       /\ (attempt_log[i].call = "upsert" /\ pc \in {"stmt_exit", "classify"}) =>
            /\ core_data_success
            /\ security_id # None
            /\ ticker_symbol \in DOMAIN db.securities
            /\ security_id.v = db.securities[ticker_symbol].id
  /\ \A sym \in DOMAIN db.securities :
       \E c \in DOMAIN db.companies :
         db.securities[sym].data.company_id = IntToStr(db.companies[c].id)
  /\ \A tb \in DOMAIN db.fin : \A row \in db.fin[tb] :
       \E sym \in DOMAIN db.securities :
         row[K_security_id].s = IntToStr(db.securities[sym].id)

\* C1 witness: a financial-statement batch was written for a resolved ticker
C1_Witness ==
  /\ pc = "stmt_exit"
  /\ Returned("upsert")
  /\ db.fin[StatementTables[stmt]] # {}

\* C2: a ticker whose entity resolution failed on all MAX_RETRIES attempts is
\* appended to the skipped list and to no other list, no statement is
\* fetched, built or uploaded for it, and the driver moves on to the next
\* entry of the list.
C2_ExhaustedEntitySkipped ==
  [][ /\ ti' >= ti
      /\ (pc \in {"stmt_loop", "stmt_fetch", "stmt_build", "stmt_upload", "stmt_exit"}
            => core_data_success /\ retries' <= MAX_RETRIES /\ Processed = ti - 1)
      /\ (pc = "core_exit" /\ retries = MAX_RETRIES) =>
            /\ skipped_tickers' = Append(skipped_tickers, ticker_symbol)
            /\ successful_tickers' = successful_tickers
            /\ partially_failed_tickers' = partially_failed_tickers
            /\ stmt_result = NoResults /\ stmt_result' = NoResults
            /\ delays' = 0
            /\ db' = db
            /\ ti' = ti + 1
            /\ pc' = "for_ticker" ]_vars

\* C2 witness: after a skipped ticker the next one is being resolved
C2_Witness ==
  /\ pc = "core_info"
  /\ ti > 1
  /\ skipped_tickers # <<>>
  /\ skipped_tickers[Len(skipped_tickers)] = all_asx_tickers[ti - 1]

\* C3: a resolved ticker is appended to the successful list when none of its
\* three statements exhausted its retries or had its upload return error,
\* and to the partially-failed list otherwise.
C3_Verdict ==
  [][ pc = "classify" =>
        /\ \A s \in DOMAIN StatementTables : stmt_result[s] # "pending"
        /\ skipped_tickers' = skipped_tickers
        /\ IF \A s \in DOMAIN StatementTables : ~StatementFailed(stmt_result[s])
           THEN /\ successful_tickers' = Append(successful_tickers, ticker_symbol)
                /\ partially_failed_tickers' = partially_failed_tickers
           ELSE /\ partially_failed_tickers' =
                     Append(partially_failed_tickers, ticker_symbol)
                /\ successful_tickers' = successful_tickers ]_vars

\* C3 witness: an error on the income statement alone, the other two
\* uploaded, and the ticker is in the partially-failed list
C3_Witness ==
  /\ pc = "for_ticker"
  /\ stmt_result = <<"error", "success", "success">>
  /\ partially_failed_tickers # <<>>
  /\ partially_failed_tickers[Len(partially_failed_tickers)] = all_asx_tickers[ti - 1]

\* C4: after a statement of a ticker failed (retries exhausted, or an error
\* upload), the driver goes on to the next statement of that ticker with a
\* fresh retry count and attempts it; a ticker reaches its verdict only with
\* all three statements attempted, and the run returns its summary only with
\* every ticker of the list processed.
C4_FailureDoesNotAbort ==
  [][ /\ (pc = "stmt_exit" /\ (retries = MAX_RETRIES \/ stmt_result[stmt] = "error")) =>
            /\ ti' = ti
            /\ IF stmt < Len(StatementTables)
               THEN stmt' = stmt + 1 /\ retries' = 0 /\ pc' = "stmt_loop"
               ELSE pc' = "classify"
      /\ (pc = "stmt_loop" /\ retries = 0) =>
            pc' = "stmt_fetch" /\ stmt' = stmt /\ ti' = ti
      /\ pc = "stmt_fetch" => attempt_log' = <<Called("fetch", pc' = "stmt_build")>>
      /\ pc' = "classify" =>
            \A s \in DOMAIN StatementTables : stmt_result'[s] # "pending"
      /\ (pc' = "done" /\ response'.code = 200) =>
            /\ ti' = Len(all_asx_tickers) + 1
            /\ Processed' = Len(all_asx_tickers) ]_vars

\* C4 witness: a later ticker is processed after a partially failed one
C4_Witness ==
  /\ pc = "stmt_fetch"
  /\ ti > 1
  /\ partially_failed_tickers # <<>>

\* C5: a retry loop whose operation failed k-1 times and then succeeded
\* (k <= MAX_RETRIES) has invoked it exactly k times and signals no
\* exhaustion: entity resolution skips nothing and goes on to the income
\* statement, a statement step leaves the failure flag and its own result
\* as the attempt left them.
C5_SuccessOnAttemptK ==
  [][ /\ (pc = "core_exit" /\ retries < MAX_RETRIES) =>
            /\ core_data_success
            /\ invocations = retries + 1
            /\ skipped_tickers' = skipped_tickers
            /\ ti' = ti /\ stmt' = 1 /\ retries' = 0 /\ pc' = "stmt_loop"
      /\ (pc = "stmt_exit" /\ retries < MAX_RETRIES) =>
            /\ invocations = retries + 1
            /\ stmt_result[stmt] \in {"skipped", "success", "error"}
            /\ stmt_result'[stmt] = stmt_result[stmt]
            /\ ticker_financials_failed' = ticker_financials_failed ]_vars

\* C5 witness: a statement step that succeeded on its last attempt, for a
\* ticker past entity resolution
C5_Witness ==
  /\ pc = "stmt_exit"
  /\ retries = MAX_RETRIES - 1
  /\ invocations = MAX_RETRIES
  /\ stmt_result[stmt] = "success"
  /\ core_data_success

\* C6: a retry loop never invokes its operation more than MAX_RETRIES times;
\* when every attempt failed it has invoked it exactly MAX_RETRIES times and
\* signals exhaustion (the ticker is skipped, or the statement flagged), and
\* exhaustion is signalled in no other case.
C6_Exhaustion ==
  [][ /\ invocations' <= MAX_RETRIES
      /\ retries' <= MAX_RETRIES
      /\ (pc = "core_exit" /\ retries = MAX_RETRIES) =>
            /\ invocations = MAX_RETRIES
            /\ ~core_data_success
            /\ skipped_tickers' = Append(skipped_tickers, ticker_symbol)
      /\ (pc = "stmt_exit" /\ retries = MAX_RETRIES) =>
            /\ invocations = MAX_RETRIES
            /\ ticker_financials_failed'
            /\ stmt_result'[stmt] = "exhausted"
      /\ skipped_tickers' # skipped_tickers =>
            pc = "core_exit" /\ retries = MAX_RETRIES /\ invocations = MAX_RETRIES
      /\ (\E s \in DOMAIN StatementTables :
            stmt_result'[s] = "exhausted" /\ stmt_result[s] # "exhausted") =>
            pc = "stmt_exit" /\ retries = MAX_RETRIES /\ invocations = MAX_RETRIES ]_vars

\* C6 witness: a statement whose every attempt failed has been flagged
C6_Witness ==
  /\ pc = "stmt_loop"
  /\ stmt > 1
  /\ stmt_result[stmt - 1] = "exhausted"
  /\ ticker_financials_failed

\* C7: once a non-empty ticker list is loaded, the run eventually returns
\* its summary response, with every ticker of the list processed.
C7_RunReturns ==
  (all_asx_tickers # <<>>)
    ~> (/\ pc = "done"
        /\ response # None
        /\ response.code = 200
        /\ response.attempted = Len(all_asx_tickers)
        /\ Processed = Len(all_asx_tickers))

\* C7 witness: the summary is returned after a skipped ticker and a partially
\* failed one
C7_Witness ==
  /\ pc = "done"
  /\ response # None
  /\ response.code = 200
  /\ skipped_tickers # <<>>
  /\ partially_failed_tickers # <<>>

\* C8: with a ticker file that is missing or gives no ticker the run ends in
\* an error response without processing anything: no remote call is made
\* and the store is untouched.
C8_NoTickersShortCircuit ==
  NoTickerInFile =>
    /\ pc \in {"init_client", "load", "done"}
    /\ db = EmptyDb
    /\ attempt_log = <<>>
    /\ invocations = 0
    /\ ti = 0
    /\ Processed = 0
    /\ pc = "done" => response.status = "error" /\ response.code \in {400, 500}

\* C8 witness: a file of blank lines only ended the run with the 400 response
C8_Witness ==
  /\ pc = "done"
  /\ tickerFile.exists
  /\ tickerFile.lines # <<>>
  /\ response # None
  /\ response.code = 400

\* C9 (as claimed): the gateway returns error whenever the remote call
\* raised or the response reports an error, whether or not the response
\* carries rows, and success only without a reported error.
C9_ErrorWheneverReported ==
  (pc = "stmt_exit" /\ remote_resp # None) =>
    /\ (remote_resp.raised \/ remote_resp.error) => stmt_result[stmt] = "error"
    /\ stmt_result[stmt] = "success" => ~remote_resp.raised /\ ~remote_resp.error

\* C10: an empty batch makes the gateway return skipped without a call to
\* the store, which is left as it was, and the driver does not flag the
\* statement as failed.
C10_EmptyBatchSkipped ==
  [][ /\ (pc = "stmt_upload" /\ data_records = <<>>) =>
            /\ db' = db
            /\ remote_resp' = None
            /\ ~Issued("upsert")'
            /\ stmt_result'[stmt] = "skipped"
            /\ ticker_financials_failed' = ticker_financials_failed
      /\ (pc = "stmt_exit" /\ stmt_result[stmt] = "skipped") =>
            /\ stmt_result'[stmt] = "skipped"
            /\ ticker_financials_failed' = ticker_financials_failed ]_vars

\* C10 witness: all three statements of a ticker came back empty and the
\* ticker is up for the successful list
C10_Witness ==
  /\ pc = "classify"
  /\ stmt_result = <<"skipped", "skipped", "skipped">>
  /\ ~ticker_financials_failed

\* the identity of a financial row: security, fiscal year, fiscal quarter
IdentityKey(rec) ==
  <<rec[K_security_id], rec[K_fiscal_year], rec[K_fiscal_quarter]>>

\* C11: (a) after a batch has been sent to a statement table with success,
\* the table holds exactly one row for the (security, fiscal year, fiscal
\* quarter) of every record of the batch, no two rows of the table share
\* such a key, null fiscal quarter included, and sending the same batch
\* again with success leaves the table as it was after the first time;
\* (b) when the whole ingestion is run again against unchanged provider data
\* with all calls succeeding, the store stays throughout the second run as
\* the first run left it, every statement table has at most one row per key,
\* and an uploaded batch has exactly one row per record in its table.
C11_UpsertIdempotent ==
  /\ (pc = "idle" /\ fn_step >= 1 /\ fn_out.status = "success") =>
        /\ \A i \in DOMAIN fn_in.data_records :
             Cardinality({ row \in fn_out.rows :
                             IdentityKey(row) = IdentityKey(fn_in.data_records[i]) }) = 1
        /\ \A r1, r2 \in fn_out.rows : IdentityKey(r1) = IdentityKey(r2) => r1 = r2
  /\ (pc = "idle" /\ fn_step = 2 /\ fn_out.status = "success"
        /\ fn_out2.status = "success") =>
        fn_out2.rows = fn_out.rows
  /\ pc # "idle" =>
        /\ fn_step = 1 => db = fn_out
        /\ \A tb \in Range(StatementTables) : \A r1, r2 \in db.fin[tb] :
             IdentityKey(r1) = IdentityKey(r2) => r1 = r2
        /\ (pc = "stmt_exit" /\ stmt_result[stmt] = "success") =>
             \A i \in DOMAIN data_records :
               Cardinality({ row \in db.fin[StatementTables[stmt]] :
                               IdentityKey(row) = IdentityKey(data_records[i]) }) = 1

\* the second run of a file of two tickers has ended with success: the store
\* is as the first run left it, and the income statements it holds have a
\* null fiscal quarter
C11_Witness ==
  /\ pc = "done"
  /\ fn_step = 1
  /\ response.code = 200
  /\ response.status = "success"
  /\ response.successful = 2
  /\ db = fn_out
  /\ Cardinality(DOMAIN db.securities) = 2
  /\ Cardinality(db.fin[StatementTables[1]]) = 4
  /\ \A row \in db.fin[StatementTables[1]] : row[K_fiscal_quarter] = None

\* C12: for every label over the alphabet, the normalizer's result has only
\* characters of [a-z0-9_], neither starts nor ends with an underscore, and
\* has no two underscores in a row.
C12_NormalizedShape ==
  fn_step >= 1 =>
    /\ Range(fn_out) \subseteq NameChars
    /\ fn_out # <<>> => (fn_out[1] # "_" /\ fn_out[Len(fn_out)] # "_")
    /\ \A i \in 1..(Len(fn_out) - 1) : ~(fn_out[i] = "_" /\ fn_out[i + 1] = "_")

\* "A-_1" has been normalized to "a_1"
C12_Witness ==
  /\ fn_step >= 1
  /\ fn_in = <<"A", "-", "_", "1">>
  /\ fn_out = <<"a", "_", "1">>

\* C13: normalizing a normalized label returns it unchanged.
C13_NormalizerIdempotent ==
  fn_step = 2 => fn_out2 = fn_out

\* " A b" has been normalized twice, to "a_b" both times
C13_Witness ==
  /\ fn_step = 2
  /\ fn_in = <<" ", "A", " ", "b">>
  /\ fn_out = <<"a", "_", "b">>
  /\ fn_out2 = <<"a", "_", "b">>

\* the entry ends in ".ax" written in any letter case
HasSuffixAnyCase(entry) ==
  /\ Len(entry) >= 3
  /\ entry[Len(entry) - 2] = "."
  /\ entry[Len(entry) - 1] \in {"a", "A"}
  /\ entry[Len(entry)] \in {"x", "X"}

\* C15: a blank line gives no ticker; any other line gives one ticker, the
\* upper-cased entry, which ends in ".AX": an entry with the suffix in any
\* letter case is only upper-cased, one without it gets it appended once, so
\* the ticker ends in a doubled suffix only if the entry did; loading the
\* loaded ticker again returns it unchanged.
C15_TickerNormalized ==
  LET entry == Strip(fn_in, Whitespace) IN
    /\ fn_step >= 1 =>
          IF entry = <<>> THEN fn_out = <<>>
          ELSE /\ Len(fn_out) = 1
               /\ EndsWith(fn_out[1], AX)
               /\ \A i \in DOMAIN fn_out[1] :
                    fn_out[1][i] \notin Range(LowerLetters)
               /\ HasSuffixAnyCase(entry) => fn_out[1] = Upper(entry)
               /\ ~HasSuffixAnyCase(entry) => fn_out[1] = Upper(entry) \o AX
               /\ EndsWith(fn_out[1], AX \o AX) =>
                    (Len(entry) >= 3 /\
                       HasSuffixAnyCase(SubSeq(entry, 1, Len(entry) - 3)))
    /\ fn_step = 2 => fn_out2 = fn_out

\* the line of a form feed, "b.aX" and a blank has been loaded as B.AX, and
\* B.AX has been loaded as itself
C15_Witness ==
  /\ fn_step = 2
  /\ fn_in = <<"\f", "b", ".", "a", "X", " ">>
  /\ fn_out = << <<"B", ".", "A", "X">> >>
  /\ fn_out2 = fn_out

\* C14: the builder returns no record for an empty table and otherwise one
\* record per period, and the record of a period holds every line-item cell
\* of that period under the normalized name of its label.
C14_EveryCellPresent ==
  fn_step = 1 =>
    LET table == fn_in.df IN
      IF DfEmpty(table) THEN fn_out = <<>>
      ELSE /\ Len(fn_out) = Cardinality(Range(table.periods))
           /\ \A c \in DOMAIN table.periods : \A r \in DOMAIN table.labels :
                /\ clean_column_name(table.labels[r]) \in DOMAIN fn_out[c]
                /\ fn_out[c][clean_column_name(table.labels[r])]
                     = ConvertCell(table.cells[r][c])

\* C20: in every record of the builder the four header fields hold the
\* entity identifier as text, the period's date, the period's year and the
\* given fiscal-quarter tag, whatever the labels of the table are.
C20_HeaderFieldsKept ==
  fn_step = 1 =>
    \A c \in DOMAIN fn_out :
      /\ fn_out[c][K_security_id]
           = [t |-> "str", s |-> StrOfId(fn_in.security_id)]
      /\ fn_out[c][K_report_date] = DateOf(fn_in.df.periods[c])
      /\ fn_out[c][K_fiscal_year] = [t |-> "num", v |-> fn_in.df.periods[c].y]
      /\ fn_out[c][K_fiscal_quarter] = fn_in.fiscal_quarter

\* how often a symbol occurs in a list
Count(list, sym) == Cardinality({ i \in DOMAIN list : list[i] = sym })

\* C16: every entry of the ticker list before the current one has been put
\* in one outcome list, the current one in none; in the summary of a run
\* that processed tickers the three counts add up to the number attempted,
\* and every symbol occurs in the three lists together as often as in the
\* ticker list.
C16_OneOutcomePerEntry ==
  /\ ti >= 1 => Processed = ti - 1
  /\ (pc = "done" /\ response.code = 200) =>
        /\ response.attempted = Len(all_asx_tickers)
        /\ response.successful + response.partially_failed + response.skipped
             = response.attempted
        /\ \A sym \in Range(all_asx_tickers) :
             Count(successful_tickers, sym) + Count(partially_failed_tickers, sym)
               + Count(skipped_tickers, sym)
               = Count(all_asx_tickers, sym)

\* a run of two tickers has ended with one skipped and one partially failed
C16_Witness ==
  /\ pc = "done"
  /\ response.code = 200
  /\ response.attempted = 2
  /\ response.skipped = 1
  /\ response.partially_failed = 1
  /\ response.successful = 0

\* where the driver is inside a statement's retry loop
InStatementLoop(p) == p \in {"stmt_loop", "stmt_fetch", "stmt_build", "stmt_upload"}

\* C17: the statements of a resolved ticker are taken in the order income
\* statement, balance sheet, cash flow: a statement begins only when the one
\* before it has ended, only the table of the current statement is written,
\* every statement is followed by exactly one delay whatever its outcome,
\* and a ticker is skipped without a delay.
C17_StatementOrder ==
  [][ /\ stmt' # stmt =>
           \/ stmt' = 0 /\ pc = "for_ticker"
           \/ stmt' = 1 /\ stmt = 0 /\ pc = "core_exit"
           \/ stmt' = stmt + 1 /\ pc = "stmt_exit" /\ stmt' <= Len(StatementTables)
      /\ pc = "stmt_exit" =>
           /\ delays' = delays + 1
           /\ stmt_result'[stmt] # "pending"
      /\ delays' # delays => (pc = "stmt_exit" \/ (pc = "for_ticker" /\ delays' = 0))
      /\ (InStatementLoop(pc') \/ pc' = "stmt_exit") =>
           /\ delays' = stmt' - 1
           /\ \A s \in DOMAIN StatementTables :
                /\ s < stmt' => stmt_result'[s] # "pending"
                /\ s > stmt' => stmt_result'[s] = "pending"
      /\ pc' = "classify" =>
           /\ delays' = Len(StatementTables)
           /\ \A s \in DOMAIN StatementTables : stmt_result'[s] # "pending"
      /\ \A s \in DOMAIN StatementTables :
           db'.fin[StatementTables[s]] # db.fin[StatementTables[s]] =>
             (pc = "stmt_upload" /\ s = stmt)
      /\ skipped_tickers' # skipped_tickers => (delays = 0 /\ delays' = 0)
    ]_vars

\* the three statements of a ticker have ended, the income statement
\* exhausted and the cash flow with an error of the gateway, with three delays
C17_Witness ==
  /\ pc = "classify"
  /\ delays = 3
  /\ stmt_result[1] = "exhausted"
  /\ stmt_result[2] = "success"
  /\ stmt_result[3] = "error"

\* C18: a completed run answers success exactly when no ticker was skipped
\* or partially failed, partial_success exactly when some ticker was and
\* some ticker was successful, and error exactly when some ticker was and
\* none was successful.
C18_RunStatus ==
  (pc = "done" /\ response.code = 200) =>
    LET failed == skipped_tickers # <<>> \/ partially_failed_tickers # <<>> IN
      /\ response.status = "success" <=> ~failed
      /\ response.status = "partial_success" <=> (failed /\ successful_tickers # <<>>)
      /\ response.status = "error" <=> (failed /\ successful_tickers = <<>>)

\* a run with one successful and one skipped ticker answered partial_success
C18_Witness ==
  /\ pc = "done"
  /\ response.code = 200
  /\ response.status = "partial_success"
  /\ Len(successful_tickers) = 1
  /\ Len(skipped_tickers) = 1

\* C19: the gateway is invoked at most once for a statement of a ticker:
\* while the statement's loop is still attempting, the gateway has not been
\* invoked for it; whatever the gateway returns, the loop is left without
\* counting a retry; a retry is counted only after a failed fetch or a
\* failed build.
C19_GatewayOnce ==
  [][ /\ pc = "stmt_upload" =>
           /\ pc' = "stmt_exit"
           /\ retries' = retries
           /\ Cardinality({ i \in DOMAIN attempt_log' :
                              attempt_log'[i].call = "gateway" }) = 1
      /\ InStatementLoop(pc') =>
           /\ stmt_result'[stmt'] = "pending"
           /\ ~\E i \in DOMAIN attempt_log' : attempt_log'[i].call = "gateway"
      /\ (InStatementLoop(pc) /\ retries' = retries + 1) =>
           /\ pc \in {"stmt_fetch", "stmt_build"}
           /\ attempt_log'[Len(attempt_log')].ok = FALSE
    ]_vars

\* after one failed fetch the gateway returned an error on the second
\* attempt and the loop has ended
C19_Witness ==
  /\ pc = "stmt_exit"
  /\ stmt_result[stmt] = "error"
  /\ retries = 1
  /\ invocations = 2
  /\ \E i \in DOMAIN attempt_log : attempt_log[i] = Called("gateway", FALSE)

====
